---- MODULE Spec2Model ----
(***************************************************************************)
(* State-machine model of the Starbucks MCP server: the tool dispatcher of *)
(* src/src/server.ts and the StarbucksClient of src/src/starbucks.ts.       *)
(*                                                                         *)
(* Every tool request runs the async handler of server.ts.  A handler runs *)
(* without interruption up to its next `await`; there it is suspended and  *)
(* another request's handler may run.  One action of the model is one such *)
(* run-to-suspension segment of one request.  The web site, the user and   *)
(* the browser process are the environment: what a navigation, a wait or a *)
(* click meets on the page is drawn nondeterministically at each step.     *)
(***************************************************************************)
EXTENDS Naturals, Sequences, FiniteSets

\* ------------------------------------------------------------------ bounds

\* browsers that can be launched in one run (handles are 1..MaxLaunch)
MaxLaunch == 2
\* tool requests that arrive in one run
MaxRequests == 3
\* placeOrder calls that can be started in one run (calls are numbered)
MaxOrders == 2
\* remove controls the cart page can show when placeOrder clears the cart
MaxRemove == 1
\* product links a category listing can show
MaxLinks == 2
\* favorites the store can hold
MaxFavorites == 5

\* tokens of the checkout page text the total is extracted from
MaxTokens == 4

\* remove controls on the cart page the clearing loop is applied to
MaxControls == 3

\* handlers that can be in progress at the same time (request slots)
MaxInFlight == 2

Reqs == 1..MaxInFlight

\* ------------------------------------------------------------- input data

Drink(n, s) == [type |-> "drink", name |-> n, size |-> s]
Food(n) == [type |-> "food", name |-> n, size |-> "none"]

\* the favorites initialize() seeds when no favorites file exists
DefaultFavorites ==
  << [name |-> "Morning Coffee Run",
      items |-> << Drink("Iced Cold Brew", "tall"), Drink("Pike Place Roast", "grande") >>],
     [name |-> "Decaf Grande",
      items |-> << Drink("Decaf Pike Place", "grande") >>],
     [name |-> "Venti Black",
      items |-> << Drink("Pike Place Roast", "venti") >>],
     [name |-> "Breakfast",
      items |-> << Drink("Pike Place Roast", "grande"),
                   Food("Bacon Gouda Artisan Breakfast Sandwich") >>] >>

\* arguments the tool requests are drawn from
\* ("" is an argument that was left out)
FavoriteNameArgs == {"Breakfast", "No Such Favorite", ""}
\* location names are sequences of characters, so that toLowerCase is computed
PolkStreet == << "P", "o", "l", "k", " ", "S", "t", "r", "e", "e", "t" >>
UnknownDistrict == << "N", "o", "e" >>

FavoriteLocationArgs == {PolkStreet}
CustomLocationArgs == {UnknownDistrict}
CustomArgs ==
  { [drinks |-> << [name |-> "Iced Cold Brew", size |-> "tall"] >>, food |-> << >>] }
NewFavoriteArgs ==
  { [name |-> "Breakfast", items |-> << Drink("Iced Cold Brew", "venti") >>],
    [name |-> "", items |-> << >>] }

ItemNames ==
  {"Iced Cold Brew", "Pike Place Roast", "Decaf Pike Place",
   "Bacon Gouda Artisan Breakfast Sandwich"}

\* ------------------------------------------------------------------- state

VARIABLES
  browser,       \* this.browser: 0 is null, else the handle of a launched browser
  page,          \* this.page: 0 is null, else the page of browser `page`
  alive,         \* the launched browsers whose process is still running
  launched,      \* how many browsers have been launched so far
  pageUrl,       \* where the page of each browser is
  favorites,     \* this.favorites
  pendingOrder,  \* this.pendingOrder: << >> is null, else one record
  sessionFile,   \* the persisted cookie jar (starbucks-session.json)
  creds,         \* STARBUCKS_EMAIL and STARBUCKS_PASSWORD are both set
  clientAwaits,  \* the client awaits each result before its next request
  arrived,       \* how many tool requests have arrived so far
  calls,         \* how many placeOrder calls have been started so far
  orders,        \* per placeOrder call: Place Order clicks made for it, its fate
  succeeded,     \* the placeOrder calls that returned success
  reqs,          \* per request slot: the handler in progress and its locals
  ev,            \* what the last step did: browser actions and returned result
  probe          \* a pure function of the client applied to one input

vars == << browser, page, alive, launched, pageUrl, favorites, pendingOrder,
           sessionFile, creds, clientAwaits, arrived, calls, orders, succeeded, reqs, ev,
           probe >>

\* what no step changes: the environment variables and the client's discipline
setup == << creds, clientAwaits, probe >>

Handles == 1..MaxLaunch

Idle ==
  [op |-> "idle", pc |-> "idle", items |-> << >>, location |-> << >>, idx |-> 0,
   page |-> 0, cont |-> "idle", saw |-> 0, call |-> 0]

\* no order summary: the step returned none
NoSummary == [items |-> << >>, location |-> << >>]

\* no result: the handler has not returned
NoResult == [isError |-> FALSE, text |-> << >>]

\* no pure function is being applied
NoProbe == [fn |-> "none", arg |-> << >>, done |-> FALSE, out |-> << >>]

NoEvent ==
  [req |-> 0, op |-> "none", acts |-> << >>, ret |-> "none", saw |-> 0, call |-> 0,
   items |-> << >>, location |-> << >>, result |-> NoResult, summary |-> NoSummary]

Init ==
  /\ browser = 0
  /\ page = 0
  /\ alive = {}
  /\ launched = 0
  /\ pageUrl = [h \in Handles |-> "closed"]
  /\ favorites = DefaultFavorites
  /\ pendingOrder = << >>
  /\ sessionFile = "absent"
  /\ creds \in BOOLEAN
  /\ clientAwaits = FALSE
  /\ arrived = 0
  /\ calls = 0
  /\ orders = [c \in 1..MaxOrders |-> [clicks |-> 0, fate |-> "none"]]
  /\ succeeded = {}
  /\ reqs = [r \in Reqs |-> Idle]
  /\ ev = NoEvent
  /\ probe = NoProbe

\* ----------------------------------------------------------------- helpers

\* request r is suspended at the await named pc
At(r, pc) == reqs[r].pc = pc

Free(r) == reqs[r].op = "idle"

AllFree == \A q \in Reqs : Free(q)

\* a request can arrive in slot r: the handler starts at once, unless the
\* client awaits its results, and then only when no handler is in progress
Arrive(r) ==
  /\ Free(r)
  /\ arrived < MaxRequests
  /\ \A q \in Reqs : q < r => ~Free(q)
  /\ clientAwaits => AllFree
  /\ arrived' = arrived + 1

\* the browser process behind handle h runs, so Playwright calls on its page work
PageLive(h) == h # 0 /\ h \in alive

\* what the client methods return as a value; every other outcome is thrown
Returned == {"ok", "authenticated", "unauthenticated"}

\* a handler that would pass every outcome on as the JSON text of a value
ToolResultUncaught(ret) == [isError |-> FALSE, text |-> << "json", ret >>]

\* the handler's result object: the JSON text of the returned value, or, from
\* its catch, isError with the text "Error: " followed by the error's message
ToolResult(ret) ==
  IF ret \in Returned THEN [isError |-> FALSE, text |-> << "json", ret >>]
  ELSE [isError |-> TRUE, text |-> << "Error: ", ret >>]

\* size.charAt(0).toUpperCase() + size.slice(1) on the sizes of the menu
Capitalize(size) ==
  CASE size = "tall" -> "Tall" [] size = "grande" -> "Grande" [] size = "venti" -> "Venti"
    [] OTHER -> size

\* a description that would leave the size out
DescribeItemBare(item) == << item.name >>

\* the description of one item, as the words of the string: for a drink the
\* capitalised size, if it has one, and the name; for food the name
DescribeItem(item) ==
  IF item.type = "drink" /\ item.size # "none"
  THEN << Capitalize(item.size), item.name >>
  ELSE << item.name >>

\* items.map(describe): one description per item, in the order of the list
DescribeItems(items) == [i \in 1..Len(items) |-> DescribeItem(items[i])]

\* the record of a step of a request: the tool, what the step did to the
\* browser, what the handler returned if it returned, and the request's locals
Event(r, slot, acts, ret) ==
  [req |-> r, op |-> slot.op, acts |-> acts, ret |-> ret, saw |-> slot.saw,
   call |-> slot.call, items |-> slot.items, location |-> slot.location,
   result |-> IF ret = "none" THEN NoResult ELSE ToolResult(ret),
   summary |-> IF ret = "ok" /\ slot.op \in {"orderFavorite", "customOrder", "confirmOrder"}
               THEN [items |-> DescribeItems(slot.items), location |-> slot.location]
               ELSE NoSummary]

\* request r moves on to its next await, having done acts
Continue(r, slot, acts) ==
  /\ reqs' = [reqs EXCEPT ![r] = slot]
  /\ ev' = Event(r, slot, acts, "none")
  /\ succeeded' = succeeded

\* the handler of request r returns a result (ret = "ok") or an error result
Return(r, slot, acts, ret) ==
  /\ reqs' = [reqs EXCEPT ![r] = Idle]
  /\ ev' = Event(r, slot, acts, ret)
  /\ succeeded' = IF ret = "ok" /\ slot.call # 0 THEN succeeded \cup {slot.call}
                   ELSE succeeded

\* a close that would leave the browser process running
CloseBrowserSkipped ==
  /\ alive' = alive
  /\ pageUrl' = pageUrl

\* browser.close(): the process of this.browser ends
CloseBrowser ==
  /\ alive' = alive \ {browser}
  /\ pageUrl' = [pageUrl EXCEPT ![browser] = "closed"]

\* the URLs /starbucks\.com\/(account|menu|$)/ matches
\* ("/menu" stands for every menu page but the cart: the menu itself, the store
\* locator, a category listing, a product page)
AuthAreaUrls == {"/", "/account", "/account/signin", "/menu", "/menu/cart"}

MatchesAuthArea(u) == u \in AuthAreaUrls

\* the page has left the sign-in form for a page only a signed-in user gets
PastSignIn(u) == u \in {"/", "/account", "/menu", "/menu/cart", "/checkout"}

\* saveSession(): what it can leave in the session file; "threw" when reading
\* the cookies of a dead page fails, the file untouched when this.page is null
SaveSessionOutcomes ==
  IF page = 0 THEN {sessionFile}
  ELSE IF PageLive(page) THEN {"empty", "cookies"}
  ELSE {"threw"}

\* -------------------------------------------------- Session Manager: launch

\* launchBrowser, resumed after `if (!this.browser)` let it start a launch:
\* chromium.launch, newContext, newPage, the saved cookies; this.browser and
\* this.page are assigned and this.page is returned
LaunchBrowser(r) ==
  /\ At(r, "launch")
  /\ UNCHANGED arrived
  /\ \E ok \in BOOLEAN :
       IF ok /\ launched < MaxLaunch
       THEN /\ launched' = launched + 1
            /\ alive' = alive \cup {launched + 1}
            /\ browser' = launched + 1
            /\ page' = launched + 1
            /\ pageUrl' = [pageUrl EXCEPT ![launched + 1] = "blank"]
            /\ Continue(r, [reqs[r] EXCEPT !.pc = reqs[r].cont, !.page = launched + 1,
                                           !.cont = "idle"], << "launch" >>)
       ELSE /\ Return(r, reqs[r], << >>, "LaunchFailed")
            /\ UNCHANGED << browser, page, alive, launched, pageUrl >>
  /\ UNCHANGED << orders, favorites, pendingOrder, sessionFile, setup, calls >>

\* ----------------------------------------------------------------- login

\* login(), up to its first await: closing the existing browser, or launching
CallLogin(r) ==
  /\ Arrive(r)
  /\ IF browser # 0
     THEN /\ CloseBrowser
          /\ Continue(r, [Idle EXCEPT !.op = "login", !.pc = "loginClose"], << "close" >>)
     ELSE /\ Continue(r, [Idle EXCEPT !.op = "login", !.pc = "launch",
                                      !.cont = "gotoSignin"], << >>)
          /\ UNCHANGED << alive, pageUrl >>
  /\ UNCHANGED << orders, browser, page, launched, favorites, pendingOrder, sessionFile,
                  setup, calls >>

\* login(), after browser.close(): both handles are dropped and a launch starts
LoginClose(r) ==
  /\ At(r, "loginClose")
  /\ UNCHANGED arrived
  /\ browser' = 0
  /\ page' = 0
  /\ Continue(r, [reqs[r] EXCEPT !.pc = "launch", !.cont = "gotoSignin"], << >>)
  /\ UNCHANGED << orders, alive, launched, pageUrl, favorites, pendingOrder, sessionFile,
                  setup, calls >>

\* login(): page.goto(sign-in page) on the page launchBrowser returned
LoginGoto(r) ==
  /\ At(r, "gotoSignin")
  /\ UNCHANGED arrived
  /\ \E ok \in BOOLEAN :
       IF ok /\ PageLive(reqs[r].page)
       THEN /\ pageUrl' = [pageUrl EXCEPT ![reqs[r].page] = "/account/signin"]
            /\ Return(r, reqs[r], << "goto" >>, "ok")
       ELSE /\ pageUrl' = pageUrl
            /\ Return(r, reqs[r], << >>, "LoginOpenFailed")
  /\ UNCHANGED << orders, browser, page, alive, launched, favorites, pendingOrder,
                  sessionFile, setup, calls >>

\* completeLogin(), up to waitForURL on this.page
CallCompleteLogin(r) ==
  /\ Arrive(r)
  /\ IF page = 0
     THEN Return(r, [Idle EXCEPT !.op = "completeLogin"], << >>, "NoSession")
     ELSE Continue(r, [Idle EXCEPT !.op = "completeLogin", !.pc = "waitUrl",
                                   !.page = page], << >>)
  /\ UNCHANGED << orders, browser, page, alive, launched, pageUrl, favorites, pendingOrder,
                  sessionFile, setup, calls >>

\* a waitForURL with no timeout: it ends only when the URL matches
WaitForUrlEndsOnMatch(matches) == matches

\* waitForURL(..., { timeout: 120000 }): the wait ends, by the URL matching or
\* by the timeout
WaitForUrlEnds(matches) == TRUE

\* completeLogin(): waitForURL resolves once the URL matches, then saveSession;
\* it rejects on timeout or when the page is gone
CompleteLoginWait(r) ==
  /\ At(r, "waitUrl")
  /\ WaitForUrlEnds(PageLive(reqs[r].page) /\ MatchesAuthArea(pageUrl[reqs[r].page]))
  /\ UNCHANGED arrived
  /\ IF PageLive(reqs[r].page) /\ MatchesAuthArea(pageUrl[reqs[r].page])
     THEN \E saved \in SaveSessionOutcomes :
            IF saved = "threw"
            THEN /\ sessionFile' = sessionFile
                 /\ Return(r, reqs[r], << >>, "LoginTimeout")
            ELSE /\ sessionFile' = saved
                 /\ Return(r, reqs[r], << "saveSession" >>, "ok")
     ELSE /\ sessionFile' = sessionFile
          /\ Return(r, reqs[r], << >>, "LoginTimeout")
  /\ UNCHANGED << orders, browser, page, alive, launched, pageUrl, favorites, pendingOrder,
                  setup, calls >>

\* a checkAuth that would only look whether the session file exists
AuthenticatedIfExists(file) == file # "absent"

\* checkAuth(): cookies.length > 0 of the parsed session file; a file that
\* cannot be read ("absent") or parsed ("corrupt") lands in the catch
Authenticated(file) == file = "cookies"

\* checkAuth(): reads the session file only
CheckAuth(r) ==
  /\ Arrive(r)
  /\ Return(r, [Idle EXCEPT !.op = "checkAuth"], << >>,
            IF Authenticated(sessionFile) THEN "authenticated" ELSE "unauthenticated")
  /\ UNCHANGED << orders, browser, page, alive, launched, pageUrl, favorites, pendingOrder,
                  sessionFile, setup, calls >>

\* ------------------------------------------------------------- favorites

ListFavorites(r) ==
  /\ Arrive(r)
  /\ Return(r, [Idle EXCEPT !.op = "listFavorites"], << >>, "ok")
  /\ UNCHANGED << orders, browser, page, alive, launched, pageUrl, favorites, pendingOrder,
                  sessionFile, setup, calls >>

\* tool add_starbucks_favorite: the argument check, then addFavorite(name, items)
AddFavorite(r) ==
  /\ Arrive(r)
  /\ Len(favorites) < MaxFavorites
  /\ \E f \in NewFavoriteArgs :
       IF f.name = ""
       THEN /\ favorites' = favorites
            /\ Return(r, [Idle EXCEPT !.op = "addFavorite"], << >>, "MissingArgument")
       ELSE /\ favorites' = Append(favorites, f)
            /\ Return(r, [Idle EXCEPT !.op = "addFavorite"], << >>, "ok")
  /\ UNCHANGED << orders, browser, page, alive, launched, pageUrl, pendingOrder,
                  sessionFile, setup, calls >>

\* favorites.find((f) => f.name === favoriteName): index of the first, 0 if none
FindFavorite(name) ==
  IF \E i \in 1..Len(favorites) : favorites[i].name = name
  THEN CHOOSE i \in 1..Len(favorites) :
         /\ favorites[i].name = name
         /\ \A j \in 1..(i - 1) : favorites[j].name # name
  ELSE 0

\* ------------------------------------------------------------- Cart Builder

\* what a product link of a category listing can display; "" is a link whose
\* textContent is null or empty
LinkTexts ==
  {"", "Pike Place Roast", "Decaf Pike Place Roast", "Pike Place Roast Traveler",
   "Iced Cold Brew", "Bacon Gouda Artisan Breakfast Sandwich"}

\* normalizedText.toLowerCase().includes(normalizedItemName.toLowerCase())
Includes(text, name) ==
  \/ text = name
  \/ text = "Decaf Pike Place Roast" /\ name \in {"Decaf Pike Place", "Pike Place Roast"}
  \/ text = "Pike Place Roast Traveler" /\ name = "Pike Place Roast"

\* text.toLowerCase().includes('traveler')
IsTraveler(text) == text = "Pike Place Roast Traveler"

RECURSIVE ListingsUpTo(_)
ListingsUpTo(n) ==
  IF n = 0 THEN {<< >>}
  ELSE ListingsUpTo(n - 1) \cup
       {Append(l, t) : l \in {x \in ListingsUpTo(n - 1) : Len(x) = n - 1}, t \in LinkTexts}

\* the product links a category page can list, in DOM order
Listings == ListingsUpTo(MaxLinks)

\* one link is the target: it has text, contains the item name, is no Traveler
LinkMatches(text, name) == text # "" /\ Includes(text, name) /\ ~IsTraveler(text)

\* the loop over allLinks: index of the first matching link, 0 when targetLink stays null
FindTargetLink(listing, name) ==
  IF \E i \in 1..Len(listing) : LinkMatches(listing[i], name)
  THEN CHOOSE i \in 1..Len(listing) :
         /\ LinkMatches(listing[i], name)
         /\ \A j \in 1..(i - 1) : ~LinkMatches(listing[j], name)
  ELSE 0

\* ------------------------------------------------------ Order State Machine

HasPending == pendingOrder # << >>

\* a store that would keep an order that is already pending
StorePendingIfNone(old, items, location, call) ==
  IF old = << >> THEN << [items |-> items, location |-> location, call |-> call] >>
  ELSE old

\* this.pendingOrder = { items, location }; call numbers the placeOrder call
StorePending(old, items, location, call) ==
  << [items |-> items, location |-> location, call |-> call] >>

\* a catch that would swallow every scraping failure
ScrapeCatchAll(e) == "ok"

\* the catch around the summary scraping: what placeOrder then returns
ScrapeCatch(e) == IF e = "CartEmpty" THEN "CartEmpty" ELSE "ok"

\* a confirmOrder that would not look at the pending order
ConfirmRefusedNever(p) == FALSE

\* if (!this.pendingOrder) throw ... at the head of confirmOrder
ConfirmRefused(p) == p = << >>

\* a cancelOrder that would not look at the pending order
CancelRefusedNever(p) == FALSE

\* if (!this.pendingOrder) throw ... at the head of cancelOrder
CancelRefused(p) == p = << >>

\* a cancelOrder that would leave the pending order in place
CancelKeep(p) == p

\* this.pendingOrder = null in cancelOrder
CancelClear(p) == << >>

\* this.pendingOrder = null in confirmOrder
ConfirmClear(p) == << >>

\* history: one more Place Order click made by a confirmOrder that was called
\* on the pending order of placeOrder call c
Clicked(log, c) ==
  IF c \in DOMAIN log THEN [log EXCEPT ![c].clicks = log[c].clicks + 1] ELSE log

\* history: the pending order p, if there is one, is confirmed or cancelled
Fated(log, p, fate) ==
  IF p = << >> THEN log ELSE [log EXCEPT ![p[1].call].fate = fate]

\* history: placeOrder call c stored its pending order over the one in old
Stored(log, old, c) ==
  [k \in DOMAIN log |->
     IF k = c THEN [log[k] EXCEPT !.fate = "pending"]
     ELSE IF old # << >> /\ old[1].call = k THEN [log[k] EXCEPT !.fate = "replaced"]
     ELSE log[k]]

\* ensureBrowserOpen(): a disconnected browser is dropped; launchBrowser launches
\* when no browser is held, else returns this.page; the request goes on at `next`
EnsureBrowserOpen(r, slot, next, acts) ==
  IF browser # 0 /\ browser \in alive
  THEN /\ UNCHANGED << browser, page >>
       /\ Continue(r, [slot EXCEPT !.pc = next, !.page = page], acts)
  ELSE /\ browser' = 0
       /\ page' = IF browser # 0 THEN 0 ELSE page
       /\ Continue(r, [slot EXCEPT !.pc = "launch", !.cont = next], acts)

\* customOrder(): the item list built from drinks and food
CustomItems(arg) ==
  [i \in 1..(Len(arg.drinks) + Len(arg.food)) |->
     IF i <= Len(arg.drinks)
     THEN Drink(arg.drinks[i].name, arg.drinks[i].size)
     ELSE Food(arg.food[i - Len(arg.drinks)])]

\* placeOrder(items, location), up to the await of ensureBrowserOpen
EnterPlaceOrder(r, op, items, location) ==
  /\ calls < MaxOrders
  /\ calls' = calls + 1
  /\ EnsureBrowserOpen(r, [Idle EXCEPT !.op = op, !.items = items,
                                       !.location = location, !.call = calls + 1],
                       "menu", << >>)

\* tool order_starbucks_favorite: orderFavorite(name, location)
CallOrderFavorite(r) ==
  /\ Arrive(r)
  /\ \E name \in FavoriteNameArgs, location \in FavoriteLocationArgs :
       IF name = ""
       THEN /\ Return(r, [Idle EXCEPT !.op = "orderFavorite"], << >>, "MissingArgument")
            /\ UNCHANGED << browser, page, calls >>
       ELSE IF FindFavorite(name) = 0
       THEN /\ Return(r, [Idle EXCEPT !.op = "orderFavorite"], << >>, "FavoriteNotFound")
            /\ UNCHANGED << browser, page, calls >>
       ELSE EnterPlaceOrder(r, "orderFavorite", favorites[FindFavorite(name)].items,
                            location)
  /\ UNCHANGED << orders, alive, launched, pageUrl, favorites, pendingOrder, sessionFile, setup >>

\* tool order_starbucks_custom: customOrder(drinks, food, location)
CallCustomOrder(r) ==
  /\ Arrive(r)
  /\ \E arg \in CustomArgs, location \in CustomLocationArgs :
       EnterPlaceOrder(r, "customOrder", CustomItems(arg), location)
  /\ UNCHANGED << orders, alive, launched, pageUrl, favorites, pendingOrder, sessionFile, setup >>

\* a placeOrder that would go on to the cart whenever it cannot sign in
SignInFallbackIgnore(signIn, credentials) ==
  IF signIn /\ credentials THEN "autoLogin" ELSE "proceed"

\* if (isSignInVisible): autoLogin when both credentials are set, else the
\* NotAuthenticated failure; with no sign-in control placeOrder goes on
SignInFallback(signIn, credentials) ==
  IF ~signIn THEN "proceed"
  ELSE IF credentials THEN "autoLogin"
  ELSE "NotAuthenticated"

\* placeOrder: goto menu, look for a sign-in control; autoLogin starts when
\* it shows and credentials are set
PlaceOrderMenu(r) ==
  /\ At(r, "menu")
  /\ UNCHANGED arrived
  /\ \E ok \in BOOLEAN, signIn \in BOOLEAN :
       LET todo == SignInFallback(signIn, creds)
           seen == IF signIn THEN << "goto", "seeSignIn" >> ELSE << "goto" >>
       IN IF ~(ok /\ PageLive(reqs[r].page))
          THEN /\ Return(r, reqs[r], << >>, "PageError")
               /\ UNCHANGED << alive, pageUrl >>
          ELSE IF todo = "proceed"
          THEN /\ pageUrl' = [pageUrl EXCEPT ![reqs[r].page] = "/menu"]
               /\ Continue(r, [reqs[r] EXCEPT !.pc = "cart"], seen)
               /\ UNCHANGED alive
          ELSE IF todo = "NotAuthenticated"
          THEN /\ pageUrl' = [pageUrl EXCEPT ![reqs[r].page] = "/menu"]
               /\ Return(r, reqs[r], seen, "NotAuthenticated")
               /\ UNCHANGED alive
          ELSE IF browser # 0
          THEN /\ alive' = alive \ {browser}
               /\ pageUrl' = [[pageUrl EXCEPT ![reqs[r].page] = "/menu"]
                                EXCEPT ![browser] = "closed"]
               /\ Continue(r, [reqs[r] EXCEPT !.pc = "autoClose"], seen \o << "close" >>)
          ELSE /\ pageUrl' = [pageUrl EXCEPT ![reqs[r].page] = "/menu"]
               /\ Continue(r, [reqs[r] EXCEPT !.pc = "launch", !.cont = "autoFill"], seen)
               /\ UNCHANGED alive
  /\ UNCHANGED << orders, browser, page, launched, favorites, pendingOrder, sessionFile,
                  setup, calls >>

\* autoLogin, after browser.close(): both handles are dropped and a launch starts
AutoLoginClose(r) ==
  /\ At(r, "autoClose")
  /\ UNCHANGED arrived
  /\ browser' = 0
  /\ page' = 0
  /\ Continue(r, [reqs[r] EXCEPT !.pc = "launch", !.cont = "autoFill"], << >>)
  /\ UNCHANGED << orders, alive, launched, pageUrl, favorites, pendingOrder, sessionFile,
                  setup, calls >>

\* autoLogin: goto sign-in, fill the credentials, submit, waitForURL,
\* saveSession; then placeOrder's second ensureBrowserOpen
AutoLoginFill(r) ==
  /\ At(r, "autoFill")
  /\ UNCHANGED arrived
  /\ \E out \in {"gotoFail", "fillFail", "stay", "account"} :
       IF out = "gotoFail" \/ ~PageLive(reqs[r].page)
       THEN /\ Return(r, reqs[r], << >>, "AutoLoginFailed")
            /\ UNCHANGED << browser, page, pageUrl, sessionFile >>
       ELSE IF out = "fillFail"
       THEN /\ pageUrl' = [pageUrl EXCEPT ![reqs[r].page] = "/account/signin"]
            /\ Return(r, reqs[r], << "goto" >>, "AutoLoginFailed")
            /\ UNCHANGED << browser, page, sessionFile >>
       ELSE \E saved \in SaveSessionOutcomes :
              /\ pageUrl' = [pageUrl EXCEPT ![reqs[r].page] =
                               IF out = "stay" THEN "/account/signin" ELSE "/account"]
              /\ IF saved = "threw"
                 THEN /\ Return(r, reqs[r], << "goto", "fill", "clickSubmit" >>,
                                "AutoLoginFailed")
                      /\ UNCHANGED << browser, page, sessionFile >>
                 ELSE /\ sessionFile' = saved
                      /\ EnsureBrowserOpen(r, reqs[r], "menu2",
                           << "goto", "fill", "clickSubmit", "saveSession" >>)
  /\ UNCHANGED << orders, alive, launched, favorites, pendingOrder, setup, calls >>

\* placeOrder: the menu page is loaded again after autoLogin
PlaceOrderMenu2(r) ==
  /\ At(r, "menu2")
  /\ UNCHANGED arrived
  /\ \E ok \in BOOLEAN :
       IF ok /\ PageLive(reqs[r].page)
       THEN /\ pageUrl' = [pageUrl EXCEPT ![reqs[r].page] = "/menu"]
            /\ Continue(r, [reqs[r] EXCEPT !.pc = "cart"], << "goto" >>)
       ELSE /\ pageUrl' = pageUrl
            /\ Return(r, reqs[r], << >>, "PageError")
  /\ UNCHANGED << orders, browser, page, alive, launched, favorites, pendingOrder,
                  sessionFile, setup, calls >>

\* a loop over removeButtons that a failed click would end with its error
RECURSIVE ClearCartRunStrict(_, _)
ClearCartRunStrict(clicks, i) ==
  IF i > Len(clicks) THEN [acts |-> << >>, ret |-> "none"]
  ELSE IF clicks[i]
  THEN LET rest == ClearCartRunStrict(clicks, i + 1)
       IN [acts |-> << "clickRemove" >> \o rest.acts, ret |-> rest.ret]
  ELSE [acts |-> << "clickRemoveFailed" >>, ret |-> "PageError"]

\* the loop over removeButtons from control i on: one click per control, the
\* error of a failed click caught and dropped; clicks[i] tells whether the
\* click on control i works; ret is what the loop throws ("none": nothing)
RECURSIVE ClearCartRun(_, _)
ClearCartRun(clicks, i) ==
  IF i > Len(clicks) THEN [acts |-> << >>, ret |-> "none"]
  ELSE LET rest == ClearCartRun(clicks, i + 1)
       IN [acts |-> (IF clicks[i] THEN << "clickRemove" >> ELSE << "clickRemoveFailed" >>)
                      \o rest.acts,
           ret |-> rest.ret]

\* what the loop does to the page
ClearCartActs(clicks, i) == ClearCartRun(clicks, i).acts

RECURSIVE ClickOutcomes(_)
ClickOutcomes(n) ==
  IF n = 0 THEN {<< >>}
  ELSE {Append(c, b) : c \in ClickOutcomes(n - 1), b \in BOOLEAN}

\* placeOrder: goto cart, then every remove control found there is clicked
PlaceOrderCart(r) ==
  /\ At(r, "cart")
  /\ UNCHANGED arrived
  /\ \E ok \in BOOLEAN, n \in 0..MaxRemove :
       IF ok /\ PageLive(reqs[r].page)
       THEN /\ pageUrl' = [pageUrl EXCEPT ![reqs[r].page] = "/menu/cart"]
            /\ \E clicks \in ClickOutcomes(n) :
                 IF ClearCartRun(clicks, 1).ret = "none"
                 THEN Continue(r, [reqs[r] EXCEPT !.pc = "bindStore"],
                               << "goto" >> \o ClearCartActs(clicks, 1))
                 ELSE Return(r, reqs[r], << "goto" >> \o ClearCartActs(clicks, 1),
                             ClearCartRun(clicks, 1).ret)
       ELSE /\ pageUrl' = pageUrl
            /\ Return(r, reqs[r], << >>, "PageError")
  /\ UNCHANGED << orders, browser, page, alive, launched, favorites, pendingOrder,
                  sessionFile, setup, calls >>

\* String.prototype.toLowerCase on one character
LowerChar(c) ==
  CASE c = "P" -> "p" [] c = "O" -> "o" [] c = "L" -> "l" [] c = "K" -> "k"
    [] c = "S" -> "s" [] c = "T" -> "t" [] c = "R" -> "r" [] c = "E" -> "e"
    [] c = "N" -> "n" [] c = "C" -> "c" [] c = "U" -> "u"
    [] OTHER -> c

\* location.toLowerCase()
ToLowerCase(str) == [i \in 1..Len(str) |-> LowerChar(str[i])]

\* the street address every entry of addressMap and the default share
PolkAddress == [kind |-> "string", val |-> "2165 Polk St, San Francisco, CA 94109, USA"]

\* addressMap[key]: the three own keys of the object literal, then what the
\* literal inherits from Object.prototype (constructor, __proto__, toString,
\* ...), else undefined
AddressMap(key) ==
  IF key \in {PolkStreet,
              << "p", "o", "l", "k", " ", "s", "t", "r", "e", "e", "t" >>,
              << "p", "o", "l", "k" >>}
  THEN PolkAddress
  ELSE IF key = << "c", "o", "n", "s", "t", "r", "u", "c", "t", "o", "r" >>
  THEN [kind |-> "function", val |-> "Object"]
  ELSE IF key = << "_", "_", "p", "r", "o", "t", "o", "_", "_" >>
  THEN [kind |-> "object", val |-> "Object.prototype"]
  ELSE IF key = << "t", "o", "S", "t", "r", "i", "n", "g" >>
  THEN [kind |-> "function", val |-> "toString"]
  ELSE [kind |-> "undefined", val |-> ""]

\* addressMap[location.toLowerCase()] || default: every value but undefined
\* that the lookup can give here is truthy
ResolveAddress(location) ==
  LET found == AddressMap(ToLowerCase(location))
  IN IF found.kind # "undefined" THEN found ELSE PolkAddress

\* a placeOrder that would go on when the Order Here click throws
OrderHereFailedNever(out) == FALSE

\* the click on Order Here threw within its timeout: the catch around it
\* raises StoreUnavailable
OrderHereFailed(out) == out = "noOrderHere"

\* placeOrder: store locator, address search, Order Here; fill() takes a string
PlaceOrderBindStore(r) ==
  /\ At(r, "bindStore")
  /\ UNCHANGED arrived
  /\ \E out \in {"gotoFail", "noInput", "fillFail", "noOrderHere", "ok"} :
       IF out = "gotoFail" \/ ~PageLive(reqs[r].page)
       THEN /\ pageUrl' = pageUrl
            /\ Return(r, reqs[r], << >>, "PageError")
       ELSE /\ pageUrl' = [pageUrl EXCEPT ![reqs[r].page] = "/menu"]
            /\ IF out = "noInput" THEN Return(r, reqs[r], << "goto" >>, "StoreNotFound")
               ELSE IF out = "fillFail" \/ ResolveAddress(reqs[r].location).kind # "string"
               THEN Return(r, reqs[r], << "goto" >>, "PageError")
               ELSE IF OrderHereFailed(out)
               THEN Return(r, reqs[r], << "goto", "fill" >>, "StoreUnavailable")
               ELSE Continue(r, [reqs[r] EXCEPT
                                   !.pc = IF reqs[r].items = << >> THEN "openCart"
                                          ELSE "addItem",
                                   !.idx = 1],
                             << "goto", "fill" >> \o
                               (IF out = "ok" THEN << "clickOrderHere" >> ELSE << >>))
  /\ UNCHANGED << orders, browser, page, alive, launched, favorites, pendingOrder,
                  sessionFile, setup, calls >>

\* a loop that would call addItemToCart for the same item again
AfterItemAgain(slot) == [slot EXCEPT !.pc = "addItem"]

\* for (const item of items): after items[idx] the loop takes the item that
\* follows it, and ends after the last one
AfterItem(slot) ==
  [slot EXCEPT !.pc = IF slot.idx = Len(slot.items) THEN "openCart" ELSE "addItem",
               !.idx = slot.idx + 1]

\* an addItemToCart that would look for a size label whatever the item
SizedAlways(item) == TRUE

\* item.type === "drink" && item.size: the item is a drink that names a size
Sized(item) == item.type = "drink" /\ item.size # "none"

\* the outcomes of the page under one addItemToCart: the category page does
\* not load, the product link cannot be clicked, the size label does not show
\* within its wait, the size label cannot be clicked, Add to Order cannot be
\* clicked, or everything works
AddItemOutcomes == {"gotoFail", "clickFail", "noSize", "sizeClickFail", "addFail", "ok"}

\* addItemToCart(page, item) on a listing whose first matching link is target
\* (0: none): what it does to the page, in order, and the error it throws
\* ("none" when it returns)
AddItemRun(item, target, out) ==
  IF out = "gotoFail" THEN [acts |-> << >>, ret |-> "PageError"]
  ELSE IF target = 0 THEN [acts |-> << "goto" >>, ret |-> "ItemNotFound"]
  ELSE IF out = "clickFail" THEN [acts |-> << "goto" >>, ret |-> "PageError"]
  ELSE IF Sized(item) /\ out = "noSize"
  THEN [acts |-> << "goto", "clickProduct" >>, ret |-> "SizeUnavailable"]
  ELSE IF Sized(item) /\ out = "sizeClickFail"
  THEN [acts |-> << "goto", "clickProduct" >>, ret |-> "PageError"]
  ELSE LET chosen == IF Sized(item) THEN << "goto", "clickProduct", "clickSize" >>
                     ELSE << "goto", "clickProduct" >>
       IN IF out = "addFail" THEN [acts |-> chosen, ret |-> "AddToCartFailed"]
          ELSE [acts |-> Append(chosen, "clickAdd"), ret |-> "none"]

\* placeOrder's await of addItemToCart(page, items[idx])
AddItemToCart(r) ==
  /\ At(r, "addItem")
  /\ UNCHANGED arrived
  /\ LET item == reqs[r].items[reqs[r].idx]
     IN \E out \in AddItemOutcomes,
           target \in {FindTargetLink(l, item.name) : l \in Listings} :
          LET run == AddItemRun(item, target,
                                IF PageLive(reqs[r].page) THEN out ELSE "gotoFail")
          IN /\ pageUrl' = IF run.acts = << >> THEN pageUrl
                           ELSE [pageUrl EXCEPT ![reqs[r].page] = "/menu"]
             /\ IF run.ret = "none" THEN Continue(r, AfterItem(reqs[r]), run.acts)
                ELSE Return(r, reqs[r], run.acts, run.ret)
  /\ UNCHANGED << orders, browser, page, alive, launched, favorites, pendingOrder,
                  sessionFile, setup, calls >>

\* placeOrder: goto cart, wait for it to render, then store the pending order
PlaceOrderOpenCart(r) ==
  /\ At(r, "openCart")
  /\ UNCHANGED arrived
  /\ \E ok \in BOOLEAN :
       IF ok /\ PageLive(reqs[r].page)
       THEN /\ pageUrl' = [pageUrl EXCEPT ![reqs[r].page] = "/menu/cart"]
            /\ pendingOrder' = StorePending(pendingOrder, reqs[r].items,
                                            reqs[r].location, reqs[r].call)
            /\ orders' = Stored(orders, pendingOrder, reqs[r].call)
            /\ Continue(r, [reqs[r] EXCEPT !.pc = "scrape"], << "goto", "storePending" >>)
       ELSE /\ UNCHANGED << pageUrl, pendingOrder, orders >>
            /\ Return(r, reqs[r], << >>, "PageError")
  /\ UNCHANGED << browser, page, alive, launched, favorites, sessionFile, setup, calls >>

\* The text of the checkout page is a sequence of tokens, what whitespace
\* separates: words and amounts.

\* the tokens that are an amount [\d]+\.[\d]{2}, with or without a "$" before it
IsAmount(t) == t \in {"$5.00", "$7.45", "7.45"}

HasDollar(t) == t \in {"$5.00", "$7.45"}

\* `$${totalMatch[1]}`: the captured digits with a "$" put before them
Dollars(t) == CASE t = "$5.00" -> "$5.00" [] t = "$7.45" -> "$7.45" [] t = "7.45" -> "$7.45"

\* the token ends with the letters "total" in any letter case
EndsWithTotal(t) == t \in {"Total", "Subtotal", "total"}

\* the token begins with the letters "total" in any letter case
StartsWithTotal(t) == t \in {"Total", "total"}

\* the token contains "subtotal" once lowercased
HasSubtotal(t) == t \in {"Subtotal", "Subtotal:"}

\* the least index of text at which hit holds, 0 when there is none
First(text, hit(_)) ==
  IF \E i \in 1..Len(text) : hit(i)
  THEN CHOOSE i \in 1..Len(text) : hit(i) /\ \A j \in 1..(i - 1) : ~hit(j)
  ELSE 0

\* /Total\s*\$?([\d]+\.[\d]{2})/i: the leftmost "total", in any case and
\* anywhere in a word, that an amount follows; the index of the amount
TotalThenAmount(text) ==
  LET hit(i) == i > 1 /\ IsAmount(text[i]) /\ EndsWithTotal(text[i - 1])
  IN First(text, hit)

\* /\$\s*([\d]+\.[\d]{2})\s*total/i: the leftmost "$" amount that "total" follows
AmountThenTotal(text) ==
  LET hit(i) == i < Len(text) /\ HasDollar(text[i]) /\ StartsWithTotal(text[i + 1])
  IN First(text, hit)

\* indexOf('subtotal') on the lowercased text, taken only when it is not 0 (the
\* `subtotalIdx &&` test), then the first "$" amount from there on
AmountAfterSubtotal(text) ==
  LET sub(i) == HasSubtotal(text[i])
      at == First(text, sub)
      hit(i) == i > at /\ HasDollar(text[i])
  IN IF at > 1 THEN First(text, hit) ELSE 0

\* the total of the order summary: the first of the three patterns that
\* matches; "absent" when orderSummary.total is never assigned
ExtractTotal(text) ==
  IF TotalThenAmount(text) # 0 THEN Dollars(text[TotalThenAmount(text)])
  ELSE IF AmountThenTotal(text) # 0 THEN Dollars(text[AmountThenTotal(text)])
  ELSE IF AmountAfterSubtotal(text) # 0 THEN Dollars(text[AmountAfterSubtotal(text)])
  ELSE "absent"

\* the checkout preview after Continue: sign-in modal, second-chance sign-in
\* with saveSession, screenshot, total, back to the cart.  What it leaves and
\* returns, every failure in it being caught by the catch around the scraping.
Preview(r, modal, loginPage, passed, stop) ==
  LET h == reqs[r].page
      signsIn == loginPage /\ creds
      pre == << "clickContinue" >> \o (IF modal THEN << "clickSignIn" >> ELSE << >>)
      \* where the page is once the fixed wait after the sign-in submit is over
      landed == IF loginPage /\ ~(signsIn /\ passed) THEN "/account/signin"
                ELSE "/checkout"
  IN IF signsIn /\ stop = "login"
     THEN /\ pageUrl' = [pageUrl EXCEPT ![h] = "/account/signin"]
          /\ sessionFile' = sessionFile
          /\ Return(r, reqs[r], pre, ScrapeCatch("PageError"))
     ELSE \E saved \in (IF signsIn THEN SaveSessionOutcomes ELSE {sessionFile}) :
            /\ sessionFile' = IF saved = "threw" THEN sessionFile ELSE saved
            /\ pageUrl' = [pageUrl EXCEPT ![h] =
                             IF saved # "threw" /\ stop = "none" THEN "/menu/cart"
                             ELSE landed]
            /\ Return(r, reqs[r],
                      pre \o (IF signsIn
                              THEN (IF saved = "threw" THEN << "fill", "clickSubmit" >>
                                    ELSE << "fill", "clickSubmit", "saveSession" >>)
                              ELSE << >>)
                          \o (IF saved # "threw" /\ stop = "none"
                              THEN << "goto" >> ELSE << >>),
                      IF saved = "threw" \/ stop # "none"
                      THEN ScrapeCatch("PageError") ELSE "ok")

\* placeOrder: the summary scraping: the cart text is read, the cart count
\* checked, Continue clicked and the checkout preview gone through
PlaceOrderScrape(r) ==
  /\ At(r, "scrape")
  /\ UNCHANGED arrived
  /\ \E out \in {"textFail", "zero", "noContinue", "continue"} :
       IF out = "textFail" \/ ~PageLive(reqs[r].page)
       THEN /\ UNCHANGED << pageUrl, sessionFile >>
            /\ Return(r, reqs[r], << >>, ScrapeCatch("PageError"))
       ELSE IF out = "zero"
       THEN /\ UNCHANGED << pageUrl, sessionFile >>
            /\ Return(r, reqs[r], << "seeCartCountZero" >>, ScrapeCatch("CartEmpty"))
       ELSE IF out = "noContinue"
       THEN /\ UNCHANGED << pageUrl, sessionFile >>
            /\ Return(r, reqs[r], << >>, ScrapeCatch("PageError"))
       ELSE \E modal \in BOOLEAN, loginPage \in BOOLEAN :
              \E passed \in (IF loginPage /\ creds THEN BOOLEAN ELSE {FALSE}),
                 stop \in (IF loginPage /\ creds THEN {"login"} ELSE {})
                          \cup {"total", "gotoCart", "none"} :
                Preview(r, modal, loginPage, passed, stop)
  /\ UNCHANGED << orders, browser, page, alive, launched, favorites, pendingOrder, setup, calls >>

\* confirmOrder(), up to the wait for the Checkout control
CallConfirmOrder(r) ==
  /\ Arrive(r)
  /\ IF ConfirmRefused(pendingOrder)
     THEN Return(r, [Idle EXCEPT !.op = "confirmOrder"], << >>, "NoPendingOrder")
     ELSE IF page = 0
     THEN Return(r, [Idle EXCEPT !.op = "confirmOrder",
                                 !.saw = IF HasPending THEN pendingOrder[1].call ELSE 0],
                 << >>, "NoSession")
     ELSE Continue(r, [Idle EXCEPT !.op = "confirmOrder", !.pc = "checkout",
                                   !.saw = IF HasPending THEN pendingOrder[1].call ELSE 0],
                   << >>)
  /\ UNCHANGED << orders, browser, page, alive, launched, pageUrl, favorites, pendingOrder,
                  sessionFile, setup, calls >>

\* a confirmOrder that would drop the pending order when it fails
ConfirmCatchClear(p) == << >>

\* catch (error) { throw ... } of confirmOrder: this.pendingOrder is as it was
ConfirmCatch(p) == p

\* confirmOrder(): the Checkout control of this.page becomes visible and is clicked
ConfirmCheckout(r) ==
  /\ At(r, "checkout")
  /\ UNCHANGED arrived
  /\ \E ok \in BOOLEAN :
       IF ok /\ PageLive(page)
       THEN /\ pageUrl' = [pageUrl EXCEPT ![page] = "/checkout"]
            /\ pendingOrder' = pendingOrder
            /\ Continue(r, [reqs[r] EXCEPT !.pc = "place"], << "clickCheckout" >>)
       ELSE /\ pageUrl' = pageUrl
            /\ pendingOrder' = ConfirmCatch(pendingOrder)
            /\ Return(r, reqs[r], << >>, "ConfirmFailed")
  /\ UNCHANGED << orders, browser, page, alive, launched, favorites,
                  sessionFile, setup, calls >>

\* the tail of confirmOrder: the pending order is read and cleared and the
\* result is built from it; with no pending order left, order.items throws
ConfirmFinish(r, acts) ==
  IF HasPending
  THEN /\ pendingOrder' = ConfirmClear(pendingOrder)
       /\ orders' = Fated(orders, pendingOrder, "confirmed")
       /\ Return(r, [reqs[r] EXCEPT !.items = pendingOrder[1].items,
                                    !.location = pendingOrder[1].location], acts, "ok")
  ELSE /\ pendingOrder' = pendingOrder
       /\ orders' = orders
       /\ Return(r, reqs[r], acts, "ConfirmFailed")

\* a confirmOrder whose inner try would let the click's error through
PlaceErrorThrown(e) == e

\* catch (e) { } around the Place Order click: the error is dropped
PlaceErrorCaught(e) == "none"

\* confirmOrder(): the wait after the Checkout click, which fails the call
\* when the page closes meanwhile (it is outside the inner try), then the
\* click on the final Place Order control; when the click fails the handler
\* goes straight on to its tail
ConfirmPlace(r) ==
  /\ At(r, "place")
  /\ UNCHANGED arrived
  /\ \E out \in {"waitFail", "clickFail", "ok"} :
       IF out = "waitFail" \/ ~PageLive(page)
       THEN /\ Return(r, reqs[r], << >>, "ConfirmFailed")
            /\ pendingOrder' = ConfirmCatch(pendingOrder)
            /\ orders' = orders
       ELSE IF out = "ok"
       THEN /\ Continue(r, [reqs[r] EXCEPT !.pc = "placed"], << "clickPlaceOrder" >>)
            /\ orders' = Clicked(orders, reqs[r].saw)
            /\ pendingOrder' = pendingOrder
       ELSE IF PlaceErrorCaught("ConfirmFailed") = "none"
       THEN ConfirmFinish(r, << "clickPlaceOrderFailed" >>)
       ELSE /\ Return(r, reqs[r], << "clickPlaceOrderFailed" >>,
                       PlaceErrorCaught("ConfirmFailed"))
            /\ UNCHANGED << orders, pendingOrder >>
  /\ UNCHANGED << browser, page, alive, launched, pageUrl, favorites, sessionFile,
                  setup, calls >>

\* confirmOrder(): after the wait that follows a successful Place Order click
ConfirmPlaced(r) ==
  /\ At(r, "placed")
  /\ UNCHANGED arrived
  /\ ConfirmFinish(r, << >>)
  /\ UNCHANGED << browser, page, alive, launched, pageUrl, favorites, sessionFile,
                  setup, calls >>

\* cancelOrder(), up to the navigation to the site root
CallCancelOrder(r) ==
  /\ Arrive(r)
  /\ IF CancelRefused(pendingOrder)
     THEN /\ UNCHANGED << pendingOrder, orders >>
          /\ Return(r, [Idle EXCEPT !.op = "cancelOrder"], << >>, "NoPendingOrder")
     ELSE /\ pendingOrder' = CancelClear(pendingOrder)
          /\ orders' = Fated(orders, pendingOrder, "cancelled")
          /\ LET slot == [Idle EXCEPT !.op = "cancelOrder", !.pc = "cancelNav",
                                      !.saw = IF HasPending THEN pendingOrder[1].call ELSE 0]
             IN IF page = 0 THEN Return(r, slot, << "clearPending" >>, "ok")
                ELSE Continue(r, slot, << "clearPending" >>)
  /\ UNCHANGED << browser, page, alive, launched, pageUrl, favorites, sessionFile,
                  setup, calls >>

\* cancelOrder(): goto site root on this.page, failure ignored; success returned
CancelNavigate(r) ==
  /\ At(r, "cancelNav")
  /\ UNCHANGED arrived
  /\ \E ok \in BOOLEAN :
       IF ok /\ PageLive(page)
       THEN /\ pageUrl' = [pageUrl EXCEPT ![page] = "/"]
            /\ Return(r, reqs[r], << "goto" >>, "ok")
       ELSE /\ pageUrl' = pageUrl
            /\ Return(r, reqs[r], << >>, "ok")
  /\ UNCHANGED << orders, browser, page, alive, launched, favorites, pendingOrder,
                  sessionFile, setup, calls >>

\* ------------------------------------------------------------- dispatcher

\* a tool name the switch does not know
CallUnknownTool(r) ==
  /\ Arrive(r)
  /\ Return(r, [Idle EXCEPT !.op = "unknown"], << >>, "UnknownOperation")
  /\ UNCHANGED << orders, browser, page, alive, launched, pageUrl, favorites, pendingOrder,
                  sessionFile, setup, calls >>

\* a tool request arrives and its handler runs up to its first await
Call(r) ==
  \/ CallLogin(r)
  \/ CallCompleteLogin(r)
  \/ CheckAuth(r)
  \/ ListFavorites(r)
  \/ AddFavorite(r)
  \/ CallOrderFavorite(r)
  \/ CallCustomOrder(r)
  \/ CallConfirmOrder(r)
  \/ CallCancelOrder(r)
  \/ CallUnknownTool(r)

\* a suspended handler is resumed
Resume(r) ==
  \/ LaunchBrowser(r)
  \/ LoginClose(r)
  \/ LoginGoto(r)
  \/ CompleteLoginWait(r)
  \/ PlaceOrderMenu(r)
  \/ AutoLoginClose(r)
  \/ AutoLoginFill(r)
  \/ PlaceOrderMenu2(r)
  \/ PlaceOrderCart(r)
  \/ PlaceOrderBindStore(r)
  \/ AddItemToCart(r)
  \/ PlaceOrderOpenCart(r)
  \/ PlaceOrderScrape(r)
  \/ ConfirmCheckout(r)
  \/ ConfirmPlace(r)
  \/ ConfirmPlaced(r)
  \/ CancelNavigate(r)

\* ------------------------------------------------------------ environment

\* the user signs in by hand in the visible browser
UserSignsIn ==
  /\ \E h \in alive :
       /\ pageUrl[h] = "/account/signin"
       /\ pageUrl' = [pageUrl EXCEPT ![h] = "/account"]
  /\ ev' = NoEvent
  /\ UNCHANGED << arrived, succeeded >>
  /\ UNCHANGED << orders, browser, page, alive, launched, favorites, pendingOrder,
                  sessionFile, setup, calls, reqs >>

\* a browser process ends on its own (closed by the user, crashed) while no
\* handler is in progress; a page that fails under a handler is an outcome of
\* that handler's step
BrowserDisconnects ==
  /\ AllFree
  /\ \E h \in alive :
       /\ alive' = alive \ {h}
       /\ pageUrl' = [pageUrl EXCEPT ![h] = "closed"]
  /\ ev' = NoEvent
  /\ UNCHANGED << arrived, succeeded >>
  /\ UNCHANGED << orders, browser, page, launched, favorites, pendingOrder,
                  sessionFile, setup, calls, reqs >>

Environment == UserSignsIn \/ BrowserDisconnects

\* ---------------------------------------------------------- specifications

\* requests are handled as they arrive: a handler starts while others are suspended
Next == (\E r \in Reqs : Call(r) \/ Resume(r)) \/ Environment

Spec == Init /\ [][Next]_vars

\* what an earlier run can have left in the session file: nothing, a file
\* that does not parse, a saved empty cookie list, a saved list of cookies
SessionFiles == {"absent", "corrupt", "empty", "cookies"}

\* one request at a time: a client that awaits each result before its next
\* request; the session file is whatever an earlier run left
InitSeq ==
  /\ browser = 0
  /\ page = 0
  /\ alive = {}
  /\ launched = 0
  /\ pageUrl = [h \in Handles |-> "closed"]
  /\ favorites = DefaultFavorites
  /\ pendingOrder = << >>
  /\ sessionFile \in SessionFiles
  /\ creds \in BOOLEAN
  /\ clientAwaits = TRUE
  /\ arrived = 0
  /\ calls = 0
  /\ orders = [c \in 1..MaxOrders |-> [clicks |-> 0, fate |-> "none"]]
  /\ succeeded = {}
  /\ reqs = [r \in Reqs |-> Idle]
  /\ ev = NoEvent
  /\ probe = NoProbe

SpecSeq == InitSeq /\ [][Next]_vars

\* one request at a time, and every suspended handler is resumed in the end:
\* each Playwright call it awaits resolves or rejects within its timeout
SpecSeqFair == InitSeq /\ [][Next]_vars /\ \A r \in Reqs : WF_vars(Resume(r))

\* ------------------------------------------------ pure functions on inputs

\* everything but probe: the server and its client sit idle while a pure
\* function is applied
machine ==
  << browser, page, alive, launched, pageUrl, favorites, pendingOrder, sessionFile,
     creds, clientAwaits, arrived, calls, orders, succeeded, reqs, ev >>

\* location arguments: the known names in several spellings, unknown names,
\* the empty string, and names of properties every object has
LocationInputs ==
  {PolkStreet, UnknownDistrict, << >>,
   << "p", "o", "l", "k", " ", "s", "t", "r", "e", "e", "t" >>,
   << "P", "O", "L", "K", " ", "S", "T", "R", "E", "E", "T" >>,
   << "p", "o", "l", "k" >>, << "P", "o", "l", "k" >>,
   << "t", "o", "S", "t", "r", "i", "n", "g" >>,
   << "c", "o", "n", "s", "t", "r", "u", "c", "t", "o", "r" >>,
   << "C", "o", "n", "s", "t", "r", "u", "c", "t", "o", "r" >>,
   << "_", "_", "p", "r", "o", "t", "o", "_", "_" >>}

\* items of every type and size, the size left out included
ItemInputs ==
  {[type |-> t, name |-> n, size |-> z] :
     t \in {"drink", "food"}, n \in {"Iced Cold Brew", "Bacon Gouda Artisan Breakfast Sandwich"},
     z \in {"none", "tall", "grande", "venti"}}

\* item lists of up to two items
ItemListInputs ==
  {<< >>} \cup {<< a >> : a \in ItemInputs} \cup {<< a, b >> : a \in ItemInputs, b \in ItemInputs}

\* what a checkout page can show, token by token
TextTokens == {"Total", "Subtotal", "Subtotal:", "Tax", "$5.00", "$7.45", "7.45"}

RECURSIVE TextsUpTo(_)
TextsUpTo(n) ==
  IF n = 0 THEN {<< >>}
  ELSE TextsUpTo(n - 1) \cup
       {Append(t, k) : t \in {x \in TextsUpTo(n - 1) : Len(x) = n - 1}, k \in TextTokens}

CheckoutTexts == TextsUpTo(MaxTokens)

\* an item, the product links of its category page, and how the page responds
AddItemInputs ==
  {[item |-> i, listing |-> l, out |-> o] :
     i \in ItemInputs, l \in Listings, o \in AddItemOutcomes}

\* the remove controls of a cart page, by whether the click on each works
RemoveControls == UNION {ClickOutcomes(n) : n \in 0..MaxControls}

ProbeInputs ==
  {[fn |-> "clearCart", arg |-> c, done |-> FALSE, out |-> << >>] : c \in RemoveControls}
  \cup
  {[fn |-> "addItem", arg |-> a, done |-> FALSE, out |-> << >>] : a \in AddItemInputs}
  \cup
  {[fn |-> "extractTotal", arg |-> t, done |-> FALSE, out |-> << >>] : t \in CheckoutTexts}
  \cup
  {[fn |-> "resolveAddress", arg |-> l, done |-> FALSE, out |-> << >>] : l \in LocationInputs}
  \cup {[fn |-> "describeItems", arg |-> l, done |-> FALSE, out |-> << >>] : l \in ItemListInputs}

InitFn ==
  /\ browser = 0
  /\ page = 0
  /\ alive = {}
  /\ launched = 0
  /\ pageUrl = [h \in Handles |-> "closed"]
  /\ favorites = DefaultFavorites
  /\ pendingOrder = << >>
  /\ sessionFile = "absent"
  /\ creds = FALSE
  /\ clientAwaits = TRUE
  /\ arrived = 0
  /\ calls = 0
  /\ orders = [c \in 1..MaxOrders |-> [clicks |-> 0, fate |-> "none"]]
  /\ succeeded = {}
  /\ reqs = [r \in Reqs |-> Idle]
  /\ ev = NoEvent
  /\ probe \in ProbeInputs

\* placeOrder's location resolution applied to the input
ApplyResolveAddress ==
  /\ probe.fn = "resolveAddress"
  /\ ~probe.done
  /\ probe' = [probe EXCEPT !.done = TRUE, !.out = ResolveAddress(probe.arg)]
  /\ UNCHANGED machine

\* the item descriptions of placeOrder and confirmOrder applied to the input
ApplyDescribeItems ==
  /\ probe.fn = "describeItems"
  /\ ~probe.done
  /\ probe' = [probe EXCEPT !.done = TRUE, !.out = DescribeItems(probe.arg)]
  /\ UNCHANGED machine

\* placeOrder's total extraction applied to the input
ApplyExtractTotal ==
  /\ probe.fn = "extractTotal"
  /\ ~probe.done
  /\ probe' = [probe EXCEPT !.done = TRUE, !.out = ExtractTotal(probe.arg)]
  /\ UNCHANGED machine

\* addItemToCart applied to the input
ApplyAddItem ==
  /\ probe.fn = "addItem"
  /\ ~probe.done
  /\ probe' = [probe EXCEPT
                 !.done = TRUE,
                 !.out = AddItemRun(probe.arg.item,
                                    FindTargetLink(probe.arg.listing, probe.arg.item.name),
                                    probe.arg.out)]
  /\ UNCHANGED machine

\* placeOrder's cart clearing loop applied to the input
ApplyClearCart ==
  /\ probe.fn = "clearCart"
  /\ ~probe.done
  /\ probe' = [probe EXCEPT !.done = TRUE, !.out = ClearCartRun(probe.arg, 1)]
  /\ UNCHANGED machine

NextFn ==
  \/ ApplyResolveAddress
  \/ ApplyDescribeItems
  \/ ApplyExtractTotal
  \/ ApplyAddItem
  \/ ApplyClearCart

SpecFn == InitFn /\ [][NextFn]_vars

\* --------------------------------------------------------------- properties

\* the tools that run placeOrder
OrderOps == {"orderFavorite", "customOrder"}

\* the item list and location a placeOrder call can be given by the order tools
PlaceOrderArgs ==
  {[items |-> favorites[i].items, location |-> l] :
     i \in 1..Len(favorites), l \in FavoriteLocationArgs}
  \cup {[items |-> CustomItems(a), location |-> l] : a \in CustomArgs, l \in CustomLocationArgs}

\* the top-level operations that work on the page
PageOps ==
  {"login", "completeLogin", "orderFavorite", "customOrder", "confirmOrder", "cancelOrder"}

\* request r is suspended inside a Playwright call on a page (not on a browser
\* launch or close)
InPageStep(r) ==
  reqs[r].op \in PageOps /\ reqs[r].pc \notin {"idle", "launch", "loginClose", "autoClose"}

\* the page that call is made on: confirmOrder and cancelOrder read this.page,
\* the others hold the page their launchBrowser returned
PageOf(r) == IF reqs[r].op \in {"confirmOrder", "cancelOrder"} THEN page ELSE reqs[r].page

\* the steps of placeOrder that change the cart: clearing it, binding the
\* store, adding the items
CartSteps == {"cart", "bindStore", "addItem"}

\* C1: the final Place Order control is clicked only by a step of confirmOrder,
\* and only by a confirmOrder that found a pending order when it was called;
\* every click is made for an order that some placeOrder stored.
C1_PlaceOrderOnlyByConfirm ==
  /\ (\E i \in DOMAIN ev.acts : ev.acts[i] = "clickPlaceOrder")
       => ev.op = "confirmOrder" /\ ev.saw # 0
  /\ \A c \in DOMAIN orders : orders[c].clicks > 0 => orders[c].fate # "none"

\* C1: a confirmOrder called on a pending order has clicked Place Order
C1_Witness ==
  /\ \E i \in DOMAIN ev.acts : ev.acts[i] = "clickPlaceOrder"
  /\ ev.op = "confirmOrder"
  /\ ev.saw # 0

\* C2: for each order a placeOrder stored, the Place Order control is clicked
\* at most once, however the confirmOrder calls on it follow or overlap.
C2_PlacedAtMostOnce ==
  \A c \in DOMAIN orders : orders[c].clicks <= 1

\* C3: when placeOrder returns a failure, the item list and location of that
\* call are not the pending order.
C3_FailureStoresNothing ==
  (ev.op \in OrderOps /\ ev.ret \notin {"none", "ok"})
    => ~(HasPending /\ pendingOrder[1].call = ev.call)

\* C4: after placeOrder has failed with ItemNotFound no pending order is set,
\* also when an earlier placeOrder had succeeded and its order was pending.
C4_ItemNotFoundLeavesNoPending ==
  (ev.op \in OrderOps /\ ev.ret = "ItemNotFound")
    => ~(HasPending /\ pendingOrder[1].call \in succeeded)

\* C5: a confirmOrder or cancelOrder called while no order is pending returns
\* NoPendingOrder, does nothing to the browser and leaves the pending order and
\* the browser and page handles as they were; called while an order is pending
\* it does not return NoPendingOrder.
C5_RefusedWithoutPending ==
  [][(arrived' = arrived + 1 /\ ev'.op \in {"confirmOrder", "cancelOrder"})
       => IF pendingOrder = << >>
          THEN /\ ev'.ret = "NoPendingOrder"
               /\ ev'.acts = << >>
               /\ UNCHANGED << pendingOrder, browser, page, alive, pageUrl >>
          ELSE ev'.ret # "NoPendingOrder"]_vars

\* C5: cancelOrder was refused while a live page was there to act on
C5_Witness ==
  /\ ev.op = "cancelOrder"
  /\ ev.ret = "NoPendingOrder"
  /\ PageLive(page)

\* C6: with one request at a time, a cancelOrder called on a pending order
\* returns success whether or not its navigation worked and leaves no pending
\* order; Place Order is never clicked for a cancelled order; a confirmOrder
\* that is the next request after the cancelOrder returns NoPendingOrder.
C6_CancelDiscards ==
  /\ []((ev.op = "cancelOrder" /\ ev.saw # 0)
          => ev.ret \in {"none", "ok"} /\ ~HasPending)
  /\ [](\A c \in DOMAIN orders : orders[c].fate = "cancelled" => orders[c].clicks = 0)
  /\ [][(ev.op = "cancelOrder" /\ ev.ret = "ok" /\ ev'.op = "confirmOrder")
          => ev'.ret = "NoPendingOrder"]_vars

\* C6: the order of a successful placeOrder was cancelled and the navigation
\* away failed
C6_Witness ==
  /\ ev.op = "cancelOrder"
  /\ ev.ret = "ok"
  /\ ev.acts = << >>
  /\ ev.saw \in succeeded
  /\ orders[ev.saw].fate = "cancelled"

\* C7: when the cart page read after the items were added shows a cart count
\* of zero, placeOrder returns CartEmpty, never success.
C7_EmptyCartRaised ==
  (\E i \in DOMAIN ev.acts : ev.acts[i] = "seeCartCountZero") => ev.ret = "CartEmpty"

\* C7: a placeOrder with items saw a cart count of zero
C7_Witness ==
  /\ \E i \in DOMAIN ev.acts : ev.acts[i] = "seeCartCountZero"
  /\ ev.op \in OrderOps
  /\ ev.items # << >>

\* C8: with one request at a time, at most one order is pending, and when
\* placeOrder returns success the pending order is exactly the item list and
\* location of that call.
C8_OnePendingNewestWins ==
  /\ Len(pendingOrder) <= 1
  /\ (ev.op \in OrderOps /\ ev.ret = "ok")
       => pendingOrder =
            << [items |-> ev.items, location |-> ev.location, call |-> ev.call] >>

\* C8: a placeOrder succeeded while the order of an earlier successful
\* placeOrder was pending
C8_Witness ==
  /\ ev.op \in OrderOps
  /\ ev.ret = "ok"
  /\ \E c \in succeeded : c # ev.call /\ orders[c].fate = "replaced"

\* C9: the pending order is empty or the complete item list and location of one
\* call, and once two placeOrder calls have both succeeded the pending order is
\* not that of the call that started first.
C9_SecondCallWins ==
  /\ Len(pendingOrder) <= 1
  /\ HasPending =>
       [items |-> pendingOrder[1].items, location |-> pendingOrder[1].location]
         \in PlaceOrderArgs
  /\ \A a \in succeeded, b \in succeeded :
       (a < b /\ HasPending) => pendingOrder[1].call # a

\* C10: at most one top-level operation at a time is inside a call on the
\* shared page, and no two placeOrder calls are changing the cart at once.
C10_OneOperationAtATime ==
  /\ \A r \in Reqs, q \in Reqs :
       (r # q /\ InPageStep(r) /\ InPageStep(q)) => PageOf(r) # PageOf(q)
  /\ \A r \in Reqs, q \in Reqs :
       r # q => ~(/\ reqs[r].op \in OrderOps /\ reqs[r].pc \in CartSteps
                  /\ reqs[q].op \in OrderOps /\ reqs[q].pc \in CartSteps)

\* C11: whenever placeOrder returns success the page is on the cart page.
C11_SuccessStopsAtCart ==
  (ev.op \in OrderOps /\ ev.ret = "ok")
    => page # 0 /\ pageUrl[page] = "/menu/cart"

\* C12: a step of placeOrder (its autoLogin or its second-chance sign-in) that
\* persisted the cookies leaves the page past the sign-in page.
C12_SavedOnlyPastSignIn ==
  (ev.op \in OrderOps /\ \E i \in DOMAIN ev.acts : ev.acts[i] = "saveSession")
    => page # 0 /\ PastSignIn(pageUrl[page])

\* C13: completeLogin returns success only with the page in the account area,
\* the menu or the site root, not on the sign-in page; with no page it fails
\* at once with NoSession.
C13_CompleteLoginNeedsAuthArea ==
  /\ (ev.op = "completeLogin" /\ ev.ret = "ok")
       => page # 0 /\ pageUrl[page] \in {"/", "/account", "/menu", "/menu/cart"}
  /\ (ev.op = "completeLogin" /\ ev.ret = "NoSession") => ev.acts = << >>

\* the browser actions of placeOrder that change the cart or bind the store
CartActs ==
  {"clickRemove", "clickRemoveFailed", "fill", "clickOrderHere", "clickProduct",
   "clickSize", "clickAdd"}

\* the awaits of placeOrder that come after autoLogin has returned
AfterAutoLogin == {"menu2", "cart", "bindStore", "addItem", "openCart", "scrape"}

C15_CheckAuthReadsJar ==
  /\ [](ev.op = "checkAuth"
          => /\ ev.ret \in {"authenticated", "unauthenticated"}
             /\ ev.acts = << >>
             /\ (ev.ret = "authenticated") = (sessionFile = "cookies"))
  /\ [][ev'.op = "checkAuth"
          => UNCHANGED << browser, page, alive, pageUrl, pendingOrder, sessionFile >>]_vars

\* C15: checkAuth found a session file that does not hold a cookie list, with
\* a live browser session open
C15_Witness ==
  /\ ev.op = "checkAuth"
  /\ ev.ret = "unauthenticated"
  /\ sessionFile \in {"corrupt", "empty"}
  /\ PageLive(page)

\* the errors the client methods and the dispatcher throw
Thrown ==
  {"LaunchFailed", "LoginOpenFailed", "NoSession", "LoginTimeout", "FavoriteNotFound",
   "PageError", "NotAuthenticated", "AutoLoginFailed", "StoreNotFound",
   "StoreUnavailable", "ItemNotFound", "SizeUnavailable", "AddToCartFailed",
   "CartEmpty", "NoPendingOrder", "ConfirmFailed", "UnknownOperation",
   "MissingArgument"}

\* C16: every handler that ends, ends with a result object; a thrown error (of
\* the client method, a missing required argument, an unknown tool name) gives
\* isError with the text "Error: " followed by the cause, and a returned value
\* gives a result that is not an error.
C16_FailuresAreErrorResults ==
  ev.ret # "none" =>
    /\ ev.ret \in Thrown \cup Returned
    /\ ev.ret \in Thrown =>
         ev.result.isError /\ ev.result.text = << "Error: ", ev.ret >>
    /\ ev.ret \in Returned =>
         ~ev.result.isError /\ ev.result.text = << "json", ev.ret >>

\* C16: a required argument was missing, or the tool name was unknown, and the
\* handler returned an error result
C16_Witness ==
  /\ ev.ret \in {"MissingArgument", "UnknownOperation"}
  /\ ev.result.isError
  /\ arrived = MaxRequests

\* C17: for every location string the resolution gives a street address
\* string, the same for every string that differs from it only in letter case.
C17_ResolutionTotal ==
  (probe.fn = "resolveAddress" /\ probe.done)
    => /\ probe.out.kind = "string"
       /\ \A l \in LocationInputs :
            ToLowerCase(l) = ToLowerCase(probe.arg) => ResolveAddress(l) = probe.out

\* C18: with one request at a time, a successful placeOrder returns the
\* location it was given and one description per item of its list, in order:
\* the capitalised size and the name for a drink with a size, the name alone
\* otherwise; these are the descriptions of the pending order it stored.  A
\* successful confirmOrder returns the descriptions and the location of the
\* pending order it found, so the same as that placeOrder returned.
C18_SummaryFromSnapshot ==
  /\ []((ev.op \in OrderOps /\ ev.ret = "ok")
          => /\ ev.summary.location = ev.location
             /\ Len(ev.summary.items) = Len(ev.items)
             /\ \A i \in DOMAIN ev.items :
                  ev.summary.items[i] =
                    IF ev.items[i].type = "food" THEN << ev.items[i].name >>
                    ELSE CASE ev.items[i].size = "tall" -> << "Tall", ev.items[i].name >>
                           [] ev.items[i].size = "grande" -> << "Grande", ev.items[i].name >>
                           [] ev.items[i].size = "venti" -> << "Venti", ev.items[i].name >>
                           [] OTHER -> << ev.items[i].name >>
             /\ HasPending
             /\ ev.summary = [items |-> DescribeItems(pendingOrder[1].items),
                              location |-> pendingOrder[1].location])
  /\ [][(ev'.op = "confirmOrder" /\ ev'.ret = "ok")
          => /\ HasPending
             /\ ev'.summary = [items |-> DescribeItems(pendingOrder[1].items),
                               location |-> pendingOrder[1].location]]_vars

\* C18: a confirmOrder returned the summary of an order of a drink and a food
\* item that a successful placeOrder had stored
C18_Witness ==
  /\ ev.op = "confirmOrder"
  /\ ev.ret = "ok"
  /\ ev.saw \in succeeded
  /\ ev.summary.items =
       << << "Grande", "Pike Place Roast" >>, << "Bacon Gouda Artisan Breakfast Sandwich" >> >>
  /\ ev.summary.location = PolkStreet

\* C19: when the checkout text shows the word Total followed by an amount
\* exactly once, written with "$", the extracted total is that "$" amount; when no "total"
\* stands next to an amount and no "subtotal" occurs, there is no total.
C19_TotalExtracted ==
  (probe.fn = "extractTotal" /\ probe.done) =>
    LET text == probe.arg
        shown == {i \in 2..Len(text) : StartsWithTotal(text[i - 1]) /\ IsAmount(text[i])}
    IN /\ \A i \in shown : (Cardinality(shown) = 1 /\ HasDollar(text[i])) => probe.out = text[i]
       /\ (/\ TotalThenAmount(text) = 0
           /\ AmountThenTotal(text) = 0
           /\ \A i \in 1..Len(text) : ~HasSubtotal(text[i])) => probe.out = "absent"

\* the position of each await of placeOrder in its sequence of steps:
\* authentication check (with autoLogin), cart clearing, store binding, item
\* adding, checkout preview, summary scraping
StepRank(pc) ==
  CASE pc \in {"launch", "menu", "autoClose", "autoFill", "menu2"} -> 1
    [] pc = "cart" -> 2
    [] pc = "bindStore" -> 3
    [] pc = "addItem" -> 4
    [] pc = "openCart" -> 5
    [] pc = "scrape" -> 6
    [] OTHER -> 0

\* the action is part of acts
Did(acts, act) == \E i \in DOMAIN acts : acts[i] = act

\* C20: with one request at a time, a placeOrder goes through its steps in the
\* order authentication check, cart clearing, store binding, item adding,
\* checkout preview, summary scraping, none left out but item adding for an
\* empty item list; it adds an item only in the item-adding step, which it
\* enters only from a store binding that clicked Order Here; StoreNotFound and
\* StoreUnavailable are raised by the store binding step only, without the
\* Order Here click, and up to and including that step no item is added and
\* the pending order stays as it was.
C20_StepsInOrder ==
  /\ [][\A r \in Reqs :
          (reqs[r].op \in OrderOps /\ reqs'[r].op \in OrderOps /\ reqs'[r] # reqs[r])
            => /\ StepRank(reqs'[r].pc) >= StepRank(reqs[r].pc)
               /\ \/ StepRank(reqs'[r].pc) <= StepRank(reqs[r].pc) + 1
                  \/ /\ reqs[r].pc = "bindStore"
                     /\ reqs'[r].pc = "openCart"
                     /\ reqs[r].items = << >>
               /\ (StepRank(reqs[r].pc) = 3 /\ StepRank(reqs'[r].pc) > 3)
                    => Did(ev'.acts, "clickOrderHere")]_vars
  /\ [][(ev'.op \in OrderOps /\ ev' # ev)
          => /\ Did(ev'.acts, "clickAdd") => reqs[ev'.req].pc = "addItem"
             /\ StepRank(reqs[ev'.req].pc) <= 3
                  => /\ UNCHANGED pendingOrder
                     /\ ~Did(ev'.acts, "clickProduct")
             /\ ev'.ret \in {"StoreNotFound", "StoreUnavailable"}
                  => /\ reqs[ev'.req].pc = "bindStore"
                     /\ ~Did(ev'.acts, "clickOrderHere")
             /\ ev'.ret = "StoreNotFound" => ~Did(ev'.acts, "fill")]_vars

\* C20: a placeOrder failed with StoreUnavailable while an earlier order was
\* pending
C20_Witness ==
  /\ ev.ret = "StoreUnavailable"
  /\ ev.op \in OrderOps
  /\ pendingOrder # << >>

\* the errors addItemToCart rethrows, by what failed
AddFailures == {"PageError", "ItemNotFound", "SizeUnavailable", "AddToCartFailed"}

\* C21: with one request at a time, placeOrder enters its item loop at the
\* first item; every step of the loop works on items[idx] and either clicks
\* Add to Order and moves to items[idx + 1] (to the cart preview after the last
\* item), leaving the item list as it was, or makes the whole placeOrder fail
\* at once without trying a later item; from the item loop on, no step of the
\* placeOrder activates a remove control, so what was added stays in the cart.
C21_ItemsOneByOne ==
  /\ [][\A r \in Reqs :
          /\ (reqs[r].pc # "addItem" /\ reqs'[r].pc = "addItem") => reqs'[r].idx = 1
          /\ (reqs[r].pc = "addItem" /\ (reqs'[r] # reqs[r] \/ ev' # ev))
               => /\ reqs[r].idx \in 1..Len(reqs[r].items)
                  /\ ev'.req = r
                  /\ \/ /\ reqs'[r] = Idle
                        /\ ev'.ret \in AddFailures
                        /\ ~Did(ev'.acts, "clickAdd")
                     \/ /\ ev'.ret = "none"
                        /\ Did(ev'.acts, "clickAdd")
                        /\ reqs'[r].items = reqs[r].items
                        /\ reqs'[r].idx = reqs[r].idx + 1
                        /\ reqs'[r].pc = IF reqs[r].idx = Len(reqs[r].items)
                                         THEN "openCart" ELSE "addItem"]_vars
  /\ [][(ev'.op \in OrderOps /\ ev' # ev /\ StepRank(reqs[ev'.req].pc) >= 4)
          => /\ ~Did(ev'.acts, "clickRemove")
             /\ ~Did(ev'.acts, "clickRemoveFailed")]_vars

\* C21: a placeOrder of a sized drink and a food item failed at Add to Order
\* for the food item, its second item, after the drink was added
C21_Witness ==
  /\ ev.op \in OrderOps
  /\ ev.ret = "AddToCartFailed"
  /\ Len(ev.items) = 2
  /\ ev.items[1].type = "drink"
  /\ ev.items[2].type = "food"
  /\ ~Did(ev.acts, "clickSize")

\* C22: with one request at a time, once a confirmOrder has clicked Checkout
\* on a pending order, it returns success and clears the pending order,
\* whether or not it then clicks Place Order.
C22_SuccessAfterCheckout ==
  [][\A r \in Reqs :
       (reqs[r].pc \in {"place", "placed"} /\ reqs'[r] # reqs[r])
         => \/ reqs[r].pc = "place" /\ reqs'[r].pc = "placed" /\ UNCHANGED pendingOrder
            \/ /\ ev'.req = r
               /\ ev'.ret = "ok"
               /\ pendingOrder # << >>
               /\ pendingOrder' = << >>]_vars

\* C22 as amended: the same, unless the wait that follows the Checkout click
\* fails because the page has closed; confirmOrder then fails before it tries
\* the Place Order control and leaves the pending order as it was.
C22_SuccessUnlessPageCloses ==
  [][\A r \in Reqs :
       (reqs[r].pc \in {"place", "placed"} /\ reqs'[r] # reqs[r])
         => \/ reqs[r].pc = "place" /\ reqs'[r].pc = "placed" /\ UNCHANGED pendingOrder
            \/ /\ ev'.req = r
               /\ ev'.ret = "ok"
               /\ pendingOrder # << >>
               /\ pendingOrder' = << >>
            \/ /\ reqs[r].pc = "place"
               /\ ev'.req = r
               /\ ev'.ret = "ConfirmFailed"
               /\ ev'.acts = << >>
               /\ UNCHANGED pendingOrder]_vars

\* C22: a confirmOrder returned success for an order on which Place Order was
\* never clicked, on a page that is still open
C22_Witness ==
  /\ ev.op = "confirmOrder"
  /\ ev.ret = "ok"
  /\ ev.saw \in DOMAIN orders
  /\ orders[ev.saw].clicks = 0
  /\ orders[ev.saw].fate = "confirmed"
  /\ pendingOrder = << >>
  /\ Did(ev.acts, "clickPlaceOrderFailed")

\* C23: with one request at a time, a confirmOrder that fails with anything
\* but NoPendingOrder has not clicked the Place Order control, and leaves the
\* pending order it was called on in place, unchanged and still pending, so
\* that neither confirmOrder nor cancelOrder would refuse it.
C23_FailedConfirmKeepsPending ==
  [][(/\ ev'.op = "confirmOrder"
      /\ ev' # ev \/ arrived' # arrived \/ reqs' # reqs
      /\ ev'.ret \notin {"none", "ok", "NoPendingOrder"})
       => /\ ev'.ret \in {"NoSession", "ConfirmFailed"}
          /\ ~Did(ev'.acts, "clickPlaceOrder")
          /\ pendingOrder # << >>
          /\ UNCHANGED pendingOrder
          /\ ~ConfirmRefused(pendingOrder')
          /\ ~CancelRefused(pendingOrder')
          /\ ev'.saw = pendingOrder[1].call
          /\ orders'[ev'.saw].clicks = 0
          /\ orders'[ev'.saw].fate = "pending"]_vars

\* C23: a confirmOrder failed because the Checkout control did not show, with
\* its order still pending
C23_Witness ==
  /\ ev.op = "confirmOrder"
  /\ ev.ret = "ConfirmFailed"
  /\ pendingOrder # << >>
  /\ ev.saw = pendingOrder[1].call

\* the actions on the page done for an item, in the order addItemToCart does
\* them; the size selection is there for a drink that names a size only
ItemSteps(item) ==
  IF item.type = "drink" /\ item.size # "none"
  THEN << "goto", "clickProduct", "clickSize", "clickAdd" >>
  ELSE << "goto", "clickProduct", "clickAdd" >>

\* C24: what addItemToCart does for an item is a prefix of: load the category
\* page, click the matched product, select the size (only for a drink that
\* names a size), click Add to Order; it returns exactly when it did them
\* all; Add to Order is not clicked when no link matched (ItemNotFound, with
\* the product not clicked either) or when the size label of a sized drink
\* did not show (SizeUnavailable); nothing is done about the size of a food
\* item or of a drink with no size.
C24_AddItemStepOrder ==
  (probe.fn = "addItem" /\ probe.done) =>
    LET item == probe.arg.item
        acts == probe.out.acts
        ret == probe.out.ret
        matched == \E i \in DOMAIN probe.arg.listing :
                     LinkMatches(probe.arg.listing[i], item.name)
    IN /\ Len(acts) <= Len(ItemSteps(item))
       /\ acts = SubSeq(ItemSteps(item), 1, Len(acts))
       /\ (ret = "none") <=> (acts = ItemSteps(item))
       /\ ret \in AddFailures \cup {"none"}
       /\ (ret = "ItemNotFound") <=> (~matched /\ probe.arg.out # "gotoFail")
       /\ ~matched => ~Did(acts, "clickProduct") /\ ~Did(acts, "clickAdd")
       /\ ret = "SizeUnavailable"
            => /\ item.type = "drink" /\ item.size # "none"
               /\ probe.arg.out = "noSize"
               /\ ~Did(acts, "clickSize") /\ ~Did(acts, "clickAdd")
       /\ (item.type = "food" \/ item.size = "none") => ~Did(acts, "clickSize")

\* C24: addItemToCart gave a sized drink up for its missing size label, after
\* it clicked the matched product and before Add to Order
C24_Witness ==
  /\ probe.fn = "addItem"
  /\ probe.done
  /\ probe.out.ret = "SizeUnavailable"
  /\ probe.out.acts = << "goto", "clickProduct" >>

C26_OneBrowserPagePair ==
  /\ [](/\ Cardinality(alive) <= 1
        /\ alive \subseteq {browser}
        /\ page \in {0, browser}
        /\ \A r \in Reqs : reqs[r].pc \in {"loginClose", "autoClose", "launch"} => alive = {})
  /\ [][launched' # launched
          => /\ browser = 0
             /\ launched' = launched + 1
             /\ browser' = launched'
             /\ page' = launched'
             /\ alive' = {launched'}]_vars
  /\ [][\A r \in Reqs :
          (reqs[r].op = "idle" /\ reqs'[r].op \in OrderOps /\ browser # 0 /\ browser \notin alive)
            => browser' = 0 /\ page' = 0 /\ reqs'[r].pc = "launch"]_vars

\* C26: a second browser was launched, after the first was closed or had
\* disconnected, and it is the only one running
C26_Witness ==
  /\ launched = 2
  /\ alive = {2}
  /\ browser = 2
  /\ page = 2

\* C27: with one request at a time and every awaited Playwright call settling
\* within its timeout, every operation that has started returns: a handler in
\* progress always gets back to idle with a result or a failure.
C27_EveryOperationReturns ==
  \A r \in Reqs : (reqs[r].op # "idle") ~> (reqs[r].op = "idle")

\* C27: completeLogin waits for the URL on a page that is still on the sign-in
\* form or elsewhere outside the account and menu pages
C27_Witness ==
  \E r \in Reqs :
    /\ reqs[r].op = "completeLogin"
    /\ reqs[r].pc = "waitUrl"
    /\ PageLive(reqs[r].page)
    /\ ~MatchesAuthArea(pageUrl[reqs[r].page])

\* C28: no two stored favorites have the same name.
C28_FavoriteNamesUnique ==
  \A i \in DOMAIN favorites : \A j \in DOMAIN favorites :
    favorites[i].name = favorites[j].name => i = j

====
